---------------------------- MODULE Spec2Model ----------------------------
(* RiverPulse ingestion-and-alerting pipeline (ecorkran/gcp-labs).          *)
(*                                                                          *)
(* Each program is modelled under its own specification:                    *)
(*   SpecBridge        src/mqtt/mqtt_pubsub_bridge.py  MQTT -> Pub/Sub      *)
(*   SpecBridgeLoop    src/mqtt/mqtt_pubsub_bridge.py  connect, reconnect,  *)
(*                     handlers split at the publish wait, Ctrl-C           *)
(*   SpecBridgeLoopFair  the same loop, retries and CONNACKs not starved    *)
(*   SpecTopic         src/mqtt/mqtt_pubsub_bridge.py  topic parsing        *)
(*   SpecThreshold     src/flood-evaluator/main.py     evaluate_reading     *)
(*   SpecEval          src/flood-evaluator/main.py     process_reading      *)
(*   SpecIngest        src/api/main.py                 pubsub_push          *)
(*   SpecApi           src/api/main.py   routing of GET requests            *)
(*   SpecRegistry      src/api/main.py   gauge handlers, one at a time      *)
(*   SpecRegistryConc  src/api/main.py   register and heartbeat interleaved *)
(*                     at their Firestore reads and writes                  *)
(*                                                                          *)
(* Python dicts are functions whose DOMAIN is the set of keys present.      *)
(* JSON null / Python None is the value None.  datetime.now() reads the     *)
(* logical clock `now`, which ticks at every read.                          *)
EXTENDS Integers, Sequences, FiniteSets, TLC

VARIABLES
    now,          \* the wall clock read by datetime.now(timezone.utc)
    stats,        \* bridge: {"messages_forwarded", "errors"} counters
    backbone,     \* bridge: messages that reached the sensor-events topic
    handled,      \* bridge: outcome of every on_message call, in order
    alertsTopic,  \* evaluator: alerts published to riverpulse-alerts
    alertsDb,     \* evaluator: documents of the Firestore "alerts" collection
    evalLast,     \* evaluator: the last process_reading invocation
    readings,     \* api: documents of the Firestore "readings" collection
    pushLast,     \* api: the last pubsub_push request and its response
    gauges,       \* api: the Firestore "gauges" collection, by document id
    regLast,      \* api: the last completed registry request
    reqs,         \* api: registry requests in flight (SpecRegistryConc)
    topicLast,    \* bridge: the last topic parsed and what was extracted
    proc,         \* bridge: the process, "running" or "exited"
    conn,         \* bridge: the MQTT connection of the client
    subs,         \* bridge: subscriptions issued on the current connection
    delay,        \* bridge: the client's current reconnect delay, 0 if unset
    broker,       \* bridge: whether the local broker is reachable
    inflight,     \* bridge: on_message calls waiting for their publish
    delivered,    \* bridge: messages the broker has delivered so far
    connacks,     \* bridge: CONNACKs processed, counted up to MaxConnacks
    httpLast      \* api: the last routed HTTP request and its response

vars == << now, stats, backbone, handled, alertsTopic, alertsDb, evalLast,
           readings, pushLast, gauges, regLast, reqs, topicLast, proc, conn,
           subs, delay, broker, inflight, delivered, connacks, httpLast >>

loopVars == << proc, conn, subs, delay, broker, inflight, delivered,
              connacks >>
bridgeVars == << stats, backbone, handled, topicLast, loopVars >>
evalVars == << alertsTopic, alertsDb, evalLast >>
ingestVars == << readings, pushLast, httpLast >>
registryVars == << gauges, regLast, reqs >>

-----------------------------------------------------------------------------
(* Bounds of the model.                                                     *)

MaxMsgs == 3        \* local-bus messages delivered to the bridge
MaxAlerts == 2      \* readings handed to the evaluator
MaxReadings == 2    \* envelopes pushed to the ingestion consumer
MaxRegClock == 5    \* registry requests are served until the clock passes this
MaxConcOps == 2     \* registry requests started (interleaved specification)
MaxTopicLen == 5    \* characters of a topic string (SpecTopic)
MaxLoopMsgs == 2    \* messages the broker delivers (SpecBridgeLoop)
MaxConnacks == 2    \* CONNACKs told apart by the history counter
MaxDocs == 2        \* documents of the readings collection (SpecApi)
MaxStamp == 2       \* clock readings stamped on those documents

-----------------------------------------------------------------------------
(* Shared helpers: Python values.                                           *)

None == "None"

\* dict.get(key, default)
Get(d, key, default) == IF key \in DOMAIN d THEN d[key] ELSE default

\* {**d, **u}: the keys of u override those of d (dict.update, Firestore
\* DocumentReference.update on an existing document)
Merge(d, u) ==
    [k \in (DOMAIN d) \cup (DOMAIN u) |-> IF k \in DOMAIN u THEN u[k] ELSE d[k]]

\* d[key] = value
Put(d, key, value) == Merge(d, [k \in {key} |-> value])

EmptyDict == [k \in {} |-> None]


\* datetime.now(timezone.utc).isoformat(): the clock reading as text
IsoFormat(t) == ToString(t)

-----------------------------------------------------------------------------
(* MQTT -> Pub/Sub bridge: src/mqtt/mqtt_pubsub_bridge.py                   *)

\* A topic is the sequence of its characters.
Slash == "/"
UNKNOWN == << "u", "n", "k", "n", "o", "w", "n" >>

\* str.split("/"): the maximal runs between separators, empty runs included
RECURSIVE SplitAcc(_, _, _, _)
SplitAcc(s, i, cur, acc) ==
    IF i > Len(s) THEN Append(acc, cur)
    ELSE IF s[i] = Slash THEN SplitAcc(s, i + 1, << >>, Append(acc, cur))
    ELSE SplitAcc(s, i + 1, Append(cur, s[i]), acc)

Split(s) == SplitAcc(s, 1, << >>, << >>)

\* a plausible slip: the type is kept only when the device id is there too
MessageTypeNeedsDevice(topic) ==
    LET topic_parts == Split(topic)
    IN  IF Len(topic_parts) > 2 THEN topic_parts[2] ELSE UNKNOWN

\* topic_parts[1] if len(topic_parts) > 1 else "unknown"   (0-based index 1)
MessageType(topic) ==
    LET topic_parts == Split(topic)
    IN  IF Len(topic_parts) > 1 THEN topic_parts[2] ELSE UNKNOWN

\* topic_parts[2] if len(topic_parts) > 2 else "unknown"   (0-based index 2)
DeviceId(topic) ==
    LET topic_parts == Split(topic)
    IN  IF Len(topic_parts) > 2 THEN topic_parts[3] ELSE UNKNOWN

\* str(msg.qos)
QosText(q) == ToString(q)

\* the attributes dict on_message attaches to the Pub/Sub message
Attributes(msg, t) ==
    [ mqtt_topic       |-> msg.topic,
      message_type     |-> MessageType(msg.topic),
      device_id        |-> DeviceId(msg.topic),
      bridge_timestamp |-> IsoFormat(t),
      mqtt_qos         |-> QosText(msg.qos) ]

\* the local-bus messages the model delivers
BusTopics ==
    { << "r", "/", "t", "/", "g" >>,     \* riverpulse/telemetry/gauge
      << "r", "/", "h" >>,               \* two segments
      << "r" >> }                        \* one segment
BusPayloads == { "p1", "p2" }
BusQos == { 0, 1 }
BusMessages == [ topic : BusTopics, payload : BusPayloads, qos : BusQos ]

\* how publisher.publish(...) followed by future.result(timeout=5) can end
PublishOutcomes == { "ok", "timeout", "error" }

\* a plausible slip: the forwarded counter bumped before the publish result
\* is known, so a failed publish counts twice
CountErrorAfterForwarded(st) ==
    [st EXCEPT !.errors = @ + 1, !.messages_forwarded = @ + 1]

\* the except branch: stats["errors"] += 1
CountError(st) == [st EXCEPT !.errors = @ + 1]

\* the success branch: stats["messages_forwarded"] += 1
CountForwarded(st) == [st EXCEPT !.messages_forwarded = @ + 1]

\* on_message(client, userdata, msg).  A publish that times out was handed
\* to the client library and may still reach the topic (landed) or not.
OnMessage(msg, outcome, landed) ==
    /\ Len(handled) < MaxMsgs
    /\ LET out == [ data |-> msg.payload, attributes |-> Attributes(msg, now) ]
       IN  /\ backbone' = IF outcome = "ok" \/ (outcome = "timeout" /\ landed)
                          THEN Append(backbone, out) ELSE backbone
           /\ stats' = IF outcome = "ok" THEN CountForwarded(stats)
                       ELSE CountError(stats)
    /\ handled' = Append(handled, outcome)
    /\ now' = now + 1
    /\ UNCHANGED << topicLast, loopVars, evalVars, ingestVars, registryVars >>

DeliverMessage ==
    \E msg \in BusMessages, outcome \in PublishOutcomes, landed \in BOOLEAN :
        OnMessage(msg, outcome, landed)

\* the bridge after client.connect(...) returned: CONNECT sent, CONNACK not
\* yet processed, no reconnect delay computed, nothing delivered
InitLoop ==
    /\ proc = "running"
    /\ conn = "connecting"
    /\ subs = {}
    /\ delay = 0
    /\ broker = "up"
    /\ inflight = << >>
    /\ delivered = 0
    /\ connacks = 0

InitCommon ==
    /\ now = 1
    /\ stats = [ messages_forwarded |-> 0, errors |-> 0 ]
    /\ backbone = << >>
    /\ handled = << >>
    /\ alertsTopic = << >>
    /\ alertsDb = << >>
    /\ evalLast = [ op |-> "none" ]
    /\ readings = << >>
    /\ pushLast = [ op |-> "none" ]
    /\ gauges = [ g \in {} |-> None ]
    /\ regLast = [ op |-> "none" ]
    /\ reqs = << >>
    /\ topicLast = [ op |-> "none" ]
    /\ InitLoop
    /\ httpLast = [ op |-> "none" ]

InitBridge == InitCommon
NextBridge == DeliverMessage
SpecBridge == InitBridge /\ [][NextBridge]_vars

\* C1: every message delivered to on_message changes exactly one of the two
\* counters, by +1: messages_forwarded when the publish completed within the
\* wait, errors when it timed out or raised; so no counter ever decreases.
C1_ExactlyOneCounter ==
    [][ /\ stats'.messages_forwarded >= stats.messages_forwarded
        /\ stats'.errors >= stats.errors
        /\ handled' # handled =>
          LET outcome == handled'[Len(handled')]
          IN  IF outcome = "ok"
              THEN /\ stats'.messages_forwarded = stats.messages_forwarded + 1
                   /\ stats'.errors = stats.errors
              ELSE /\ stats'.errors = stats.errors + 1
                   /\ stats'.messages_forwarded = stats.messages_forwarded
      ]_vars


\* C1 witness: k consecutive timeouts after a forwarded message left errors
\* at k and messages_forwarded where it was.
C1_Witness ==
    /\ Len(handled) >= 3
    /\ handled[1] = "ok"
    /\ \A i \in 2..Len(handled) : handled[i] = "timeout"
    /\ stats.errors = Len(handled) - 1
    /\ stats.messages_forwarded = 1

-----------------------------------------------------------------------------
(* The bridge's main loop: client.connect(...) then client.loop_forever(),  *)
(* lines 83-102.  loop_forever is the paho-mqtt network loop: it runs the   *)
(* callbacks one at a time on the calling thread, and when the connection   *)
(* drops it waits the reconnect delay and calls reconnect() again, for ever.*)
(* A handler is split where it blocks: BeginHandler runs on_message up to   *)
(* publisher.publish(...), FinishHandler is future.result(timeout=5)        *)
(* returning or raising.                                                    *)

MQTT_SUBSCRIBE_TOPIC == << "r", "/", "#" >>     \* "riverpulse/#"
SUBSCRIBE_QOS == 1
min_delay == 1
max_delay == 30

Smaller(a, b) == IF a < b THEN a ELSE b

\* a topic filter ending in the multi-level wildcard matches every topic
\* that starts with the levels before it
Matches(filter, topic) ==
    LET f == Split(filter)
        t == Split(topic)
    IN  /\ Len(t) >= Len(f) - 1
        /\ \A i \in 1..(Len(f) - 1) : f[i] = t[i]

\* a plausible slip: the subscription is left to whoever set the session up
on_connect_without_subscribe(issued) == issued

\* on_connect: client.subscribe(MQTT_SUBSCRIBE_TOPIC, qos=1)
on_connect(issued) ==
    issued \cup { [ topic |-> MQTT_SUBSCRIBE_TOPIC, qos |-> SUBSCRIBE_QOS ] }

\* a plausible slip: the delay doubles without the upper bound
NextDelayUncapped(d) == IF d = 0 THEN min_delay ELSE d * 2

\* client.reconnect_delay_set(min_delay=1, max_delay=30): the first wait is
\* min_delay, every further one twice the last, capped at max_delay
NextDelay(d) == IF d = 0 THEN min_delay ELSE Smaller(d * 2, max_delay)

\* a plausible slip: the publish is not waited for, so the loop takes the
\* next message while earlier publishes are still pending
LoopFreeAlways(waiting) == TRUE

\* the loop dispatches the next message only after on_message returned
LoopFree(waiting) == Len(waiting) = 0

LoopTopics ==
    { << "r", "/", "t", "/", "g" >>,     \* riverpulse/telemetry/gauge
      << "r", "/", "h" >>,               \* two segments
      << "x", "/", "t" >> }              \* outside the subscribed namespace
LoopMessages == [ topic : LoopTopics, payload : { "p1" }, qos : { 1 } ]

\* the broker's CONNACK: the connection is up, the reconnect delay is
\* forgotten and on_connect runs
ConnAck ==
    /\ proc = "running"
    /\ conn = "connecting"
    /\ broker = "up"
    /\ conn' = "connected"
    /\ delay' = 0
    /\ subs' = on_connect(subs)
    /\ connacks' = Smaller(connacks + 1, MaxConnacks)
    /\ UNCHANGED << now, stats, backbone, handled, topicLast, proc, broker,
                    inflight, delivered, evalVars, ingestVars, registryVars >>

\* the connection drops (on_disconnect only prints); the loop notices
\* between callbacks.  A connection still waiting for its CONNACK drops only
\* when the broker went away.
ConnectionLost ==
    /\ proc = "running"
    /\ conn \in { "connected", "connecting" }
    /\ conn = "connecting" => broker = "down"
    /\ LoopFree(inflight)
    /\ conn' = "lost"
    /\ subs' = {}
    /\ UNCHANGED << now, stats, backbone, handled, topicLast, proc, delay,
                    broker, inflight, delivered, connacks, evalVars,
                    ingestVars, registryVars >>

\* one round of the retry loop: wait the next delay, then reconnect(); a
\* refused connection (OSError) is swallowed and the loop goes round again
Reconnect ==
    /\ proc = "running"
    /\ conn = "lost"
    /\ delay' = NextDelay(delay)
    /\ conn' = IF broker = "up" THEN "connecting" ELSE "lost"
    /\ UNCHANGED << now, stats, backbone, handled, topicLast, proc, subs,
                    broker, inflight, delivered, connacks, evalVars,
                    ingestVars, registryVars >>

\* the broker becomes unreachable, or reachable again
BrokerChange ==
    /\ proc = "running"
    /\ broker' = IF broker = "up" THEN "down" ELSE "up"
    /\ UNCHANGED << now, stats, backbone, handled, topicLast, proc, conn,
                    subs, delay, inflight, delivered, connacks, evalVars,
                    ingestVars, registryVars >>

\* the broker delivers msg and on_message runs up to publisher.publish(...)
BeginHandler(msg) ==
    /\ proc = "running"
    /\ conn = "connected"
    /\ \E sub \in subs : Matches(sub.topic, msg.topic)
    /\ LoopFree(inflight)
    /\ delivered < MaxLoopMsgs
    /\ delivered' = delivered + 1
    /\ inflight' = Append(inflight, [ seq |-> delivered + 1, msg |-> msg,
                                      attributes |-> Attributes(msg, now) ])
    /\ now' = now + 1
    /\ UNCHANGED << stats, backbone, handled, topicLast, proc, conn, subs,
                    delay, broker, connacks, evalVars, ingestVars,
                    registryVars >>

\* what reaches the sensor-events topic, tagged with the delivery number and
\* with how the bridge's wait for it ended
Published(entry, outcome) ==
    [ data |-> entry.msg.payload, attributes |-> entry.attributes,
      seq |-> entry.seq, outcome |-> outcome ]

\* future.result(timeout=5) returns or raises, and on_message counts
FinishHandler(i, outcome, landed) ==
    /\ proc = "running"
    /\ i \in 1..Len(inflight)
    /\ backbone' = IF outcome = "ok" \/ (outcome = "timeout" /\ landed)
                   THEN Append(backbone, Published(inflight[i], outcome))
                   ELSE backbone
    /\ stats' = IF outcome = "ok" THEN CountForwarded(stats)
                ELSE CountError(stats)
    /\ handled' = Append(handled, outcome)
    /\ inflight' = [ j \in 1..(Len(inflight) - 1) |->
                       IF j < i THEN inflight[j] ELSE inflight[j + 1] ]
    /\ UNCHANGED << now, topicLast, proc, conn, subs, delay, broker,
                    delivered, connacks, evalVars, ingestVars, registryVars >>

\* Ctrl-C.  KeyboardInterrupt is raised in the thread that runs
\* loop_forever, wherever it is: if on_message is waiting in future.result,
\* the wait is abandoned (except Exception does not catch KeyboardInterrupt)
\* and neither counter is touched.  The except clause of line 100 prints the
\* statistics and calls client.disconnect().
Interrupt(landed) ==
    /\ proc = "running"
    /\ proc' = "exited"
    /\ conn' = "closed"
    /\ subs' = {}
    /\ backbone' = IF Len(inflight) > 0 /\ landed
                   THEN Append(backbone, Published(inflight[1], "abandoned"))
                   ELSE backbone
    /\ UNCHANGED << now, stats, handled, topicLast, delay, broker, inflight,
                    delivered, connacks, evalVars, ingestVars, registryVars >>

InitBridgeLoop == InitCommon

NextBridgeLoop ==
    \/ ConnAck
    \/ ConnectionLost
    \/ Reconnect
    \/ BrokerChange
    \/ \E msg \in LoopMessages : BeginHandler(msg)
    \/ \E i \in 1..MaxLoopMsgs, outcome \in PublishOutcomes,
          landed \in BOOLEAN : FinishHandler(i, outcome, landed)
    \/ \E landed \in BOOLEAN : Interrupt(landed)

SpecBridgeLoop == InitBridgeLoop /\ [][NextBridgeLoop]_vars

\* loop_forever keeps running: a retry that is due is made, and a CONNACK
\* that arrived is processed
SpecBridgeLoopFair ==
    /\ InitBridgeLoop
    /\ [][NextBridgeLoop]_vars
    /\ WF_vars(Reconnect)
    /\ WF_vars(ConnAck)

\* C12: at most one handler is between its publish and its result at any
\* time, and of two messages of the same local topic (hence the same device)
\* that were both forwarded the first delivered is first on the backbone.
C12_NoReordering ==
    /\ Len(inflight) <= 1
    /\ \A i, j \in 1..Len(backbone) :
          ( /\ i < j
            /\ backbone[i].outcome = "ok"
            /\ backbone[j].outcome = "ok"
            /\ backbone[i].attributes.mqtt_topic
                 = backbone[j].attributes.mqtt_topic )
          => backbone[i].seq < backbone[j].seq

\* C12 witness: two messages of one topic were delivered one after the other
\* and both forwarded.
C12_Witness ==
    /\ Len(backbone) = 2
    /\ backbone[1].outcome = "ok" /\ backbone[2].outcome = "ok"
    /\ backbone[1].attributes.mqtt_topic = backbone[2].attributes.mqtt_topic
    /\ backbone[1].seq = 1 /\ backbone[2].seq = 2
    /\ stats.messages_forwarded = 2

\* C13: losing the connection or failing to reconnect never ends the
\* process; the reconnect delay is unset or within [1, 30]; each new delay is
\* 1 after a connection and otherwise twice the last one, capped at 30; and
\* whenever the bridge is disconnected while the broker is reachable it is
\* later connected (unless the broker goes away again or the operator stops
\* the process).
C13_ReconnectsForever ==
    /\ [](delay = 0 \/ (1 <= delay /\ delay <= 30))
    /\ [][ /\ conn' = "lost" => proc' = "running"
           /\ (delay' # delay /\ delay' # 0) =>
                 delay' = IF delay = 0 THEN 1
                          ELSE IF 2 * delay < 30 THEN 2 * delay ELSE 30
       ]_vars
    /\ (proc = "running" /\ conn = "lost" /\ broker = "up")
          ~> (conn = "connected" \/ broker = "down" \/ proc = "exited")

\* C13 witness: after a second CONNACK the bridge is connected again, the
\* backoff forgotten.
C13_Witness ==
    /\ proc = "running"
    /\ conn = "connected"
    /\ connacks >= 2
    /\ delay = 0

\* the backoff reached its upper bound while the broker stayed away
C13_MaxDelaySeen ==
    /\ proc = "running"
    /\ conn = "lost"
    /\ broker = "down"
    /\ delay = 30

\* the subscription the bridge needs: riverpulse/# at QoS 1
WildcardSubscription == [ topic |-> << "r", "/", "#" >>, qos |-> 1 ]

\* C14: every step that establishes the connection, the first CONNACK and
\* every later one, issues the riverpulse/# subscription at QoS 1 on that
\* connection; so while the bridge is connected or handling a message the
\* subscription has been issued on the current connection.
C14_SubscribedOnEveryConnect ==
    /\ []( (proc = "running" /\ (conn = "connected" \/ Len(inflight) > 0))
              => WildcardSubscription \in subs )
    /\ [][ (conn' = "connected" /\ conn # "connected")
              => /\ WildcardSubscription \notin subs
                 /\ WildcardSubscription \in subs'
       ]_vars

\* C14 witness: a message is being handled on a connection that was
\* established by a reconnect, with the subscription issued on it.
C14_Witness ==
    /\ proc = "running"
    /\ conn = "connected"
    /\ connacks >= 2
    /\ Len(inflight) = 1
    /\ subs = { WildcardSubscription }

\* C15: once the bridge has shut down on a shutdown request the connection
\* is released and every message that had been delivered, the one whose
\* publish was in flight included, was counted as forwarded or as an error.
C15_GracefulShutdown ==
    proc = "exited" =>
        /\ conn = "closed"
        /\ Len(inflight) = 0
        /\ stats.messages_forwarded + stats.errors = delivered

\* the shutdown request arrived between two messages: nothing is lost
C15_IdleShutdownSeen ==
    /\ proc = "exited"
    /\ conn = "closed"
    /\ Len(inflight) = 0
    /\ delivered = 2
    /\ stats.messages_forwarded + stats.errors = 2

-----------------------------------------------------------------------------
(* Topic addressing on its own: on_message lines 45-47 applied to every     *)
(* topic string over a small alphabet.                                      *)

TopicChars == { "a", "b", Slash }
Topics == UNION { [ 1..n -> TopicChars ] : n \in 0..MaxTopicLen }

InitTopic ==
    /\ InitCommon!1 /\ InitCommon!2 /\ InitCommon!3 /\ InitCommon!4
    /\ InitCommon!5 /\ InitCommon!6 /\ InitCommon!7 /\ InitCommon!8
    /\ InitCommon!9 /\ InitCommon!10 /\ InitCommon!11 /\ InitCommon!12
    /\ topicLast \in { [ op |-> "topic", topic |-> s ] : s \in Topics }
    /\ InitCommon!14 /\ InitCommon!15

\* topic_parts = msg.topic.split("/") and the two conditional reads
ParseTopic ==
    /\ topicLast.op = "topic"
    /\ topicLast' = [ op           |-> "parsed",
                      topic        |-> topicLast.topic,
                      message_type |-> MessageType(topicLast.topic),
                      device_id    |-> DeviceId(topicLast.topic) ]
    /\ UNCHANGED << now, stats, backbone, handled, loopVars, evalVars,
                    ingestVars, registryVars >>

NextTopic == ParseTopic
SpecTopic == InitTopic /\ [][NextTopic]_vars

\* The segments of a topic, read off the positions of its separators.
SlashAt(s) == { i \in 1..Len(s) : s[i] = Slash }
Segments(s) == Cardinality(SlashAt(s)) + 1
\* position of the k-th separator; 0 before the first, Len + 1 after the last
Cut(s, k) ==
    IF k = 0 THEN 0
    ELSE IF k > Cardinality(SlashAt(s)) THEN Len(s) + 1
    ELSE CHOOSE i \in SlashAt(s) :
             Cardinality({ j \in SlashAt(s) : j < i }) = k - 1
\* segment[k], counted from 0
Segment(s, k) ==
    [ i \in 1..(Cut(s, k + 1) - Cut(s, k) - 1) |-> s[Cut(s, k) + i] ]

\* C11 as stated: three or more segments give (segment[1], segment[2]);
\* fewer than three give ("unknown", "unknown").
C11_BothUnknownBelowThree ==
    topicLast.op = "parsed" =>
        IF Segments(topicLast.topic) >= 3
        THEN /\ topicLast.message_type = Segment(topicLast.topic, 1)
             /\ topicLast.device_id = Segment(topicLast.topic, 2)
        ELSE /\ topicLast.message_type = UNKNOWN
             /\ topicLast.device_id = UNKNOWN

\* C11 (amended): every topic string is parsed without failure; three or
\* more segments give (segment[1], segment[2]); exactly two segments give
\* (segment[1], "unknown"); a single segment gives ("unknown", "unknown").
C11_PerFieldFallback ==
    topicLast.op = "parsed" =>
        /\ topicLast.message_type =
              IF Segments(topicLast.topic) >= 2
              THEN Segment(topicLast.topic, 1) ELSE UNKNOWN
        /\ topicLast.device_id =
              IF Segments(topicLast.topic) >= 3
              THEN Segment(topicLast.topic, 2) ELSE UNKNOWN

\* C11 witness: a two-segment topic was parsed to its second segment and the
\* sentinel device id.
C11_Witness ==
    /\ topicLast.op = "parsed"
    /\ topicLast.topic = << "a", "/", "b" >>
    /\ topicLast.message_type = << "b" >>
    /\ topicLast.device_id = UNKNOWN

\* a three-segment topic was parsed to (segment[1], segment[2])
C11_ThreeSegmentsSeen ==
    /\ topicLast.op = "parsed"
    /\ topicLast.topic = << "a", "/", "b", "/", "a" >>
    /\ topicLast.message_type = << "b" >>
    /\ topicLast.device_id = << "a" >>

-----------------------------------------------------------------------------
(* Threshold evaluator: src/flood-evaluator/main.py                         *)
(*                                                                          *)
(* Flow values are fixed-point numbers in hundredths of a cfs, so that      *)
(* round(x, 1) has something to round.  An optional number is the empty set *)
(* (None) or a singleton.                                                   *)

NoValue == {}
Some(x) == {x}
TheValue(opt) == CHOOSE x \in opt : TRUE

\* a whole number of cfs, in hundredths
Cfs(n) == n * 100

\* THRESHOLDS, src lines 18-23
THRESHOLDS ==
    [ g \in {"default", "gauge-001", "gauge-002", "gauge-003"} |->
        CASE g = "default"   -> [ high |-> Cfs(2000), flood |-> Cfs(3000) ]
          [] g = "gauge-001" -> [ high |-> Cfs(1500), flood |-> Cfs(2200) ]
          [] g = "gauge-002" -> [ high |-> Cfs(700),  flood |-> Cfs(1000) ]
          [] g = "gauge-003" -> [ high |-> Cfs(2500), flood |-> Cfs(3500) ] ]

\* THRESHOLDS.get(gauge_id, THRESHOLDS["default"])
ThresholdsFor(gauge_id) == Get(THRESHOLDS, gauge_id, THRESHOLDS["default"])

\* a plausible slip: the alert always reports the "high" threshold
LowerAlwaysHigh(severity) == "high"

\* severity.lower()
Lower(severity) == IF severity = "FLOOD" THEN "flood" ELSE "high"

\* round(x, 1) of a non-negative x given in hundredths.  An x halfway between
\* two tenths is a binary float just above or just below the half, so either
\* neighbour can come out: tieUp says which.
Round1(x, tieUp) ==
    LET down == (x \div 10) * 10
        rest == x % 10
    IN  IF rest < 5 THEN down
        ELSE IF rest > 5 THEN down + 10
        ELSE IF tieUp THEN down + 10 ELSE down

\* evaluate_reading(reading), called at clock reading t: None or {alert}
evaluate_reading(reading, t, tieUp) ==
    LET gauge_id == Get(reading, "gaugeId", "unknown")
        cfs == Get(reading, "cfs", NoValue)
    IN  IF cfs = NoValue THEN NoValue
        ELSE
          LET thresholds == ThresholdsFor(gauge_id)
              severity == IF TheValue(cfs) >= thresholds.flood THEN "FLOOD"
                          ELSE IF TheValue(cfs) >= thresholds.high THEN "HIGH"
                          ELSE None
          IN  IF severity = None THEN NoValue
              ELSE Some(
                [ type |-> "flow_alert",
                  severity |-> severity,
                  gaugeId |-> gauge_id,
                  cfs |-> TheValue(cfs),
                  threshold |-> thresholds[Lower(severity)],
                  exceedance |->
                      Round1(TheValue(cfs) - thresholds[Lower(severity)], tieUp),
                  reading_timestamp |-> Get(reading, "timestamp", None),
                  evaluated_at |-> IsoFormat(t),
                  message |-> << severity, gauge_id, TheValue(cfs),
                                 thresholds[Lower(severity)] >> ])

\* a dict with the one key, or with none
Field(key, present, value) ==
    IF present THEN [k \in {key} |-> value] ELSE EmptyDict

\* readings: dicts with optional gaugeId, cfs (a number or null) and timestamp
ReadingsOver(gaugeIds, cfsValues, stamps) ==
    { Merge(Merge(Field("gaugeId", g[1], g[2]), Field("cfs", c[1], c[2])),
            Field("timestamp", s[1], s[2])) :
        g \in {<< FALSE, "" >>} \cup { << TRUE, x >> : x \in gaugeIds },
        c \in {<< FALSE, NoValue >>, << TRUE, NoValue >>}
                \cup { << TRUE, Some(x) >> : x \in cfsValues },
        s \in {<< FALSE, "" >>} \cup { << TRUE, x >> : x \in stamps } }

\* every threshold of the table, in hundredths
AllThresholds ==
    UNION { { THRESHOLDS[g].high, THRESHOLDS[g].flood } : g \in DOMAIN THRESHOLDS }

\* flows around every threshold, whole and fractional, and the spec's scenarios
CfsSamples ==
    { t + d : t \in AllThresholds, d \in { -100, -1, 0, 4, 5, 6, 15, 100 } }
      \cup { 0, Cfs(1200), Cfs(1800) }

EvalGaugeIds == { "gauge-001", "gauge-002", "gauge-003", "gauge-999", "unknown" }

\* the evaluator as a function: a reading is drawn, then evaluated
InitThreshold ==
    /\ InitCommon!1 /\ InitCommon!2 /\ InitCommon!3 /\ InitCommon!4
    /\ InitCommon!5 /\ InitCommon!6
    /\ evalLast \in { [ op |-> "reading", reading |-> r ] :
                        r \in ReadingsOver(EvalGaugeIds, CfsSamples, {"ts"}) }
    /\ InitCommon!8 /\ InitCommon!9 /\ InitCommon!10 /\ InitCommon!11
    /\ InitCommon!12 /\ InitCommon!13 /\ InitCommon!14 /\ InitCommon!15

Evaluate(tieUp) ==
    /\ evalLast.op = "reading"
    /\ evalLast' = [ op |-> "evaluate_reading",
                     reading |-> evalLast.reading,
                     alert |-> evaluate_reading(evalLast.reading, now, tieUp) ]
    /\ UNCHANGED << now, bridgeVars, alertsTopic, alertsDb, ingestVars,
                    registryVars >>

NextThreshold == \E tieUp \in BOOLEAN : Evaluate(tieUp)
SpecThreshold == InitThreshold /\ [][NextThreshold]_vars

\* the reference classification of a reading with a measured flow c:
\* the thresholds that apply, the severity and the reported threshold
RefThresholds(r) ==
    IF "gaugeId" \in DOMAIN r /\ r["gaugeId"] \in DOMAIN THRESHOLDS
    THEN THRESHOLDS[r["gaugeId"]] ELSE THRESHOLDS["default"]

RefMeasured(r) == "cfs" \in DOMAIN r /\ r["cfs"] # NoValue

RefClassified(r, alert) ==
    IF ~RefMeasured(r) THEN alert = NoValue
    ELSE LET c == TheValue(r["cfs"])
             th == RefThresholds(r)
         IN  IF c >= th.flood
             THEN /\ alert # NoValue
                  /\ TheValue(alert).severity = "FLOOD"
                  /\ TheValue(alert).threshold = th.flood
             ELSE IF c >= th.high
             THEN /\ alert # NoValue
                  /\ TheValue(alert).severity = "HIGH"
                  /\ TheValue(alert).threshold = th.high
             ELSE alert = NoValue

\* C10 as claimed: evaluation equals the reference, and an alert's
\* exceedance is exactly cfs minus the reported threshold.
C10_ExactExceedance ==
    evalLast.op = "evaluate_reading" =>
        /\ RefClassified(evalLast.reading, evalLast.alert)
        /\ evalLast.alert # NoValue =>
             LET a == TheValue(evalLast.alert)
             IN  /\ a.exceedance = a.cfs - a.threshold
                 /\ a.exceedance >= 0

\* C10 amended: evaluation equals the reference, and an alert's exceedance is
\* cfs minus the reported threshold rounded to one decimal: a whole number
\* of tenths, at most half a tenth away from the difference, never negative.
C10_RoundedExceedance ==
    evalLast.op = "evaluate_reading" =>
        /\ RefClassified(evalLast.reading, evalLast.alert)
        /\ evalLast.alert # NoValue =>
             LET a == TheValue(evalLast.alert)
                 diff == a.cfs - a.threshold
             IN  /\ a.cfs = TheValue(evalLast.reading["cfs"])
                 /\ a.exceedance % 10 = 0
                 /\ a.exceedance - diff <= 5
                 /\ diff - a.exceedance <= 5
                 /\ a.exceedance >= 0
                 /\ diff % 10 = 0 => a.exceedance = diff

\* C10 witness: gauge-002 at 1200 cfs was evaluated to FLOOD, threshold 1000,
\* exceedance 200.
C10_Witness ==
    /\ evalLast.op = "evaluate_reading"
    /\ Get(evalLast.reading, "gaugeId", "unknown") = "gauge-002"
    /\ Get(evalLast.reading, "cfs", NoValue) = Some(Cfs(1200))
    /\ evalLast.alert # NoValue
    /\ TheValue(evalLast.alert).severity = "FLOOD"
    /\ TheValue(evalLast.alert).threshold = Cfs(1000)
    /\ TheValue(evalLast.alert).exceedance = Cfs(200)

\* gauge-999 at 1800 cfs fell back to the default entry and raised no alert
C10_DefaultFallbackSeen ==
    /\ evalLast.op = "evaluate_reading"
    /\ Get(evalLast.reading, "gaugeId", "unknown") = "gauge-999"
    /\ Get(evalLast.reading, "cfs", NoValue) = Some(Cfs(1800))
    /\ evalLast.alert = NoValue

-----------------------------------------------------------------------------
(* process_reading: the evaluator's Pub/Sub-triggered entry point           *)

\* what the message data decodes to: text that is not JSON, or a reading
EventReadings == ReadingsOver({"gauge-002", "gauge-999"},
                              {Cfs(500), Cfs(800), Cfs(1200), Cfs(3000) + 4},
                              {})
EventPayloads ==
    {[ json |-> FALSE ]} \cup { [ json |-> TRUE, reading |-> r ] : r \in EventReadings }

\* process_reading(cloud_event).  publishOk: future.result() returns a
\* message id rather than raising; storeOk: alert_ref.set(alert) returns
\* rather than raising.  An exception leaves the function at once.
process_reading(payload, publishOk, storeOk, tieUp) ==
    /\ now < MaxAlerts + 1
    /\ now' = now + 1
    /\ IF ~payload.json
       THEN \* except json.JSONDecodeError: return
            /\ evalLast' = [ op |-> "process_reading", result |-> "invalid_json",
                             alert |-> NoValue, publishOk |-> TRUE,
                             storeOk |-> TRUE ]
            /\ UNCHANGED << alertsTopic, alertsDb >>
       ELSE LET alert == evaluate_reading(payload.reading, now, tieUp)
            IN  IF alert = NoValue
                THEN /\ evalLast' = [ op |-> "process_reading",
                                      result |-> "normal", alert |-> NoValue,
                                      publishOk |-> TRUE, storeOk |-> TRUE ]
                     /\ UNCHANGED << alertsTopic, alertsDb >>
                ELSE IF ~publishOk
                THEN \* future.result() raises: nothing below it runs
                     /\ evalLast' = [ op |-> "process_reading",
                                      result |-> "publish_raised",
                                      alert |-> alert, publishOk |-> FALSE,
                                      storeOk |-> storeOk ]
                     /\ UNCHANGED << alertsTopic, alertsDb >>
                ELSE /\ alertsTopic' = Append(alertsTopic,
                            [ data |-> TheValue(alert),
                              severity |-> TheValue(alert).severity,
                              gaugeId |-> Get(payload.reading, "gaugeId", "unknown") ])
                     /\ alertsDb' = IF storeOk
                                    THEN Append(alertsDb, TheValue(alert))
                                    ELSE alertsDb
                     /\ evalLast' = [ op |-> "process_reading",
                                      result |-> IF storeOk THEN "stored"
                                                 ELSE "store_raised",
                                      alert |-> alert, publishOk |-> TRUE,
                                      storeOk |-> storeOk ]
    /\ UNCHANGED << bridgeVars, ingestVars, registryVars >>

InitEval == InitCommon
NextEval ==
    \E payload \in EventPayloads, publishOk, storeOk, tieUp \in BOOLEAN :
        process_reading(payload, publishOk, storeOk, tieUp)
SpecEval == InitEval /\ [][NextEval]_vars

IsPublished(alert) ==
    \E i \in 1..Len(alertsTopic) : alertsTopic[i].data = alert
IsStored(alert) ==
    \E i \in 1..Len(alertsDb) : alertsDb[i] = alert

\* C2: when an alert is produced, a failure of either sink never prevents
\* the other: a failed publish still leaves the alert persisted, and a failed
\* persist still leaves the alert published.
C2_SinksIndependent ==
    (evalLast.op = "process_reading" /\ evalLast.alert # NoValue) =>
        /\ ~evalLast.publishOk /\ evalLast.storeOk
             => IsStored(TheValue(evalLast.alert))
        /\ evalLast.publishOk /\ ~evalLast.storeOk
             => IsPublished(TheValue(evalLast.alert))

\* the half of C2 the code keeps: a failed persist leaves the alert published
C2_StoreFailureKeepsPublish ==
    (evalLast.op = "process_reading" /\ evalLast.alert # NoValue
       /\ evalLast.publishOk /\ ~evalLast.storeOk)
        => IsPublished(TheValue(evalLast.alert))

-----------------------------------------------------------------------------
(* Ingestion consumer: pubsub_push, src/api/main.py lines 157-195           *)
(*                                                                          *)
(* The base64 text of message.data is described by what it encodes:         *)
(*   bad_base64   not base64 (wrong padding): b64decode raises              *)
(*   bad_utf8     bytes that are not UTF-8: .decode('utf-8') raises         *)
(*   text         UTF-8 text that is not JSON (the empty text included)     *)
(*   json_object  a JSON object, given as a dict                            *)
(*   json_other   JSON that is not an object: a list, number, string, null  *)

PayloadObjects ==
    { Merge(Field("timestamp", t[1], t[2]), Field("receivedAt", r[1], r[2])) :
        t \in { << FALSE, "" >>, << TRUE, None >>, << TRUE, "2026-01-31T12:00" >> },
        r \in { << FALSE, "" >>, << TRUE, "client-clock" >> } }

PayloadData ==
    { [ kind |-> "bad_base64" ], [ kind |-> "bad_utf8" ], [ kind |-> "json_other" ],
      [ kind |-> "text", text |-> "" ], [ kind |-> "text", text |-> "not json" ] }
      \cup { [ kind |-> "json_object", value |-> o ] : o \in PayloadObjects }

\* envelope['message'] when it is a mapping
PubsubMessages ==
    { Merge(Merge(Field("data", d[1], d[2]),
                  Merge(Field("messageId", m, "m-1"), Field("publishTime", m, "pt-1"))),
            Field("attributes", a, [ device_id |-> "gauge-001" ])) :
        d \in {<< FALSE, [ kind |-> "text", text |-> "" ] >>}
                \cup { << TRUE, x >> : x \in PayloadData },
        m \in BOOLEAN, a \in BOOLEAN }

\* request.get_json(): no body (None), {}, an object without 'message',
\* an object whose 'message' is null, an object whose 'message' is a mapping
Envelopes ==
    { [ kind |-> "none" ], [ kind |-> "empty" ], [ kind |-> "no_message" ],
      [ kind |-> "null_message" ] }
      \cup { [ kind |-> "message", message |-> m ] : m \in PubsubMessages }

\* not envelope
Falsy(envelope) == envelope.kind \in { "none", "empty" }

\* 'message' in envelope
HasMessage(envelope) == envelope.kind \in { "null_message", "message" }

\* base64.b64decode(data).decode('utf-8') raises
DecodeRaises(data) == data.kind \in { "bad_base64", "bad_utf8" }

\* json.loads(data) raises json.JSONDecodeError
JsonDecodeError(data) == data.kind = "text"

\* the metadata block, lines 178-189, on a reading that is a dict
AddMetadata(reading, pubsub_message, t) ==
    LET r1 == Put(reading, "receivedAt", IsoFormat(t))
        r2 == Put(r1, "source", "pubsub")
        r3 == Put(r2, "messageId", Get(pubsub_message, "messageId", None))
        r4 == Put(r3, "publishTime", Get(pubsub_message, "publishTime", None))
        r5 == IF "attributes" \in DOMAIN pubsub_message
              THEN Put(r4, "attributes", pubsub_message["attributes"]) ELSE r4
    IN  IF "timestamp" \notin DOMAIN r5
        THEN Put(r5, "timestamp", r5["receivedAt"]) ELSE r5

\* a plausible slip: the document is written before the envelope is checked
PushFailsAfterWrite(envelope, code) ==
    /\ pushLast' = [ op |-> "pubsub_push", envelope |-> envelope, code |-> code,
                     before |-> Len(readings), t |-> now ]
    /\ readings' = Append(readings, [ k \in {"source"} |-> "pubsub" ])

\* the response and the effect of a request that stores nothing
PushFails(envelope, code) ==
    /\ pushLast' = [ op |-> "pubsub_push", envelope |-> envelope, code |-> code,
                     before |-> Len(readings), t |-> now ]
    /\ UNCHANGED readings

\* doc_ref.set(reading) on a fresh document, then 200
PushStores(envelope, reading) ==
    /\ readings' = Append(readings,
                          AddMetadata(reading, envelope.message, now))
    /\ pushLast' = [ op |-> "pubsub_push", envelope |-> envelope, code |-> 200,
                     before |-> Len(readings), t |-> now ]

\* pubsub_push().  500 is Flask's answer to an exception the handler raised.
pubsub_push(envelope) ==
    /\ now < MaxReadings + 1
    /\ now' = now + 1
    /\ IF Falsy(envelope) \/ ~HasMessage(envelope)
       THEN PushFails(envelope, 400)
       ELSE IF envelope.kind = "null_message"
       THEN PushFails(envelope, 500)     \* 'data' in None: TypeError
       ELSE LET pubsub_message == envelope.message
            IN  IF "data" \in DOMAIN pubsub_message
                THEN LET data == pubsub_message["data"]
                     IN  IF DecodeRaises(data)
                         THEN PushFails(envelope, 500)
                         ELSE IF JsonDecodeError(data)
                         THEN PushStores(envelope,
                                         [ k \in {"rawData"} |-> data.text ])
                         ELSE IF data.kind = "json_other"
                         THEN PushFails(envelope, 500)   \* item assignment
                         ELSE PushStores(envelope, data.value)
                ELSE PushStores(envelope, EmptyDict)
    /\ UNCHANGED << httpLast, bridgeVars, evalVars, registryVars >>

InitIngest == InitCommon
NextIngest == \E envelope \in Envelopes : pubsub_push(envelope)
SpecIngest == InitIngest /\ [][NextIngest]_vars

\* the last request carried payload data of one of the given kinds
LastPayloadKindIn(kinds) ==
    /\ pushLast.op = "pubsub_push"
    /\ pushLast.envelope.kind = "message"
    /\ "data" \in DOMAIN pushLast.envelope.message
    /\ pushLast.envelope.message["data"].kind \in kinds

LastPayload == pushLast.envelope.message["data"]

\* the last request stored a record
LastStored == Len(readings) = pushLast.before + 1
LastRecord == readings[Len(readings)]

\* C7: for every payload that decodes to JSON, the stored record has a
\* non-null timestamp: the payload's own when it has one, else received_at,
\* which is the ingestion-side clock reading.
C7_TimestampNonNull ==
    (LastPayloadKindIn({"json_object", "json_other"}) /\ LastStored) =>
        /\ "timestamp" \in DOMAIN LastRecord
        /\ LastRecord["timestamp"] # None
        /\ LastRecord["receivedAt"] = IsoFormat(pushLast.t)
        /\ IF "timestamp" \in DOMAIN LastPayload.value
           THEN LastRecord["timestamp"] = LastPayload.value["timestamp"]
           ELSE LastRecord["timestamp"] = LastRecord["receivedAt"]

\* what the code does keep of C7: the timestamp key is always present, the
\* payload's own value (null included) when it has the key, else received_at
C7_TimestampPresent ==
    (LastPayloadKindIn({"json_object"}) /\ LastStored) =>
        /\ "timestamp" \in DOMAIN LastRecord
        /\ LastRecord["receivedAt"] = IsoFormat(pushLast.t)
        /\ IF "timestamp" \in DOMAIN LastPayload.value
           THEN LastRecord["timestamp"] = LastPayload.value["timestamp"]
           ELSE LastRecord["timestamp"] = LastRecord["receivedAt"]

\* C8: a malformed payload (not JSON, or undecodable) never fails the call:
\* the consumer answers success and has stored a record holding the decoded
\* text under rawData.
C8_MalformedNeverFails ==
    LastPayloadKindIn({"text", "bad_base64", "bad_utf8"}) =>
        /\ pushLast.code = 200
        /\ LastStored
        /\ "rawData" \in DOMAIN LastRecord
        /\ LastPayload.kind = "text" => LastRecord["rawData"] = LastPayload.text

\* the part of C8 the code keeps: text that is not JSON is stored raw
C8_NonJsonTextStoredRaw ==
    LastPayloadKindIn({"text"}) =>
        /\ pushLast.code = 200
        /\ LastStored
        /\ LastRecord["rawData"] = LastPayload.text

\* the metadata keys pubsub_push injects
InjectedKeys ==
    { "receivedAt", "source", "messageId", "publishTime", "attributes", "timestamp" }

C9_EmptyRecordSeen ==
    /\ pushLast.op = "pubsub_push"
    /\ pushLast.envelope.kind = "message"
    /\ "data" \notin DOMAIN pushLast.envelope.message
    /\ pushLast.code = 200
    /\ LastStored
    /\ DOMAIN LastRecord = InjectedKeys \ {"attributes"}

-----------------------------------------------------------------------------
(* Routing of GET requests: src/api/main.py, the @app.route table, with the *)
(* handlers health and get_readings.  A path is the sequence of its         *)
(* segments; Var stands for a <name> placeholder of a rule.                 *)

Var == "<var>"

\* every @app.route of the module: methods, rule and the view function
UrlMap ==
    { [ methods |-> {"GET"},   rule |-> << >>,                          endpoint |-> "health" ],
      [ methods |-> {"GET"},   rule |-> << "readings" >>,               endpoint |-> "get_readings" ],
      [ methods |-> {"POST"},  rule |-> << "readings" >>,               endpoint |-> "create_reading" ],
      [ methods |-> {"GET"},   rule |-> << "readings", Var >>,          endpoint |-> "get_reading" ],
      [ methods |-> {"POST"},  rule |-> << "pubsub", "push" >>,         endpoint |-> "pubsub_push" ],
      [ methods |-> {"GET"},   rule |-> << "gauges" >>,                 endpoint |-> "list_gauges" ],
      [ methods |-> {"POST"},  rule |-> << "gauges" >>,                 endpoint |-> "create_gauge" ],
      [ methods |-> {"GET"},   rule |-> << "gauges", Var >>,            endpoint |-> "get_gauge" ],
      [ methods |-> {"PATCH"}, rule |-> << "gauges", Var >>,            endpoint |-> "update_gauge" ],
      [ methods |-> {"GET"},   rule |-> << "gauges", Var, "readings" >>, endpoint |-> "get_gauge_readings" ],
      [ methods |-> {"GET"},   rule |-> << "stats" >>,                  endpoint |-> "get_stats" ],
      [ methods |-> {"GET"},   rule |-> << "data", "signed-url" >>,     endpoint |-> "signed_url" ],
      [ methods |-> {"GET"},   rule |-> << "gauges", Var, "exports" >>, endpoint |-> "gauge_exports" ],
      [ methods |-> {"POST"},  rule |-> << "pubsub", "data-upload" >>,  endpoint |-> "data_upload" ],
      [ methods |-> {"GET"},   rule |-> << "exports" >>,                endpoint |-> "list_exports" ],
      [ methods |-> {"GET"},   rule |-> << "exports", Var >>,           endpoint |-> "get_export" ],
      [ methods |-> {"POST"},  rule |-> << "gauges", "register" >>,     endpoint |-> "register_gauge" ],
      [ methods |-> {"POST"},  rule |-> << "gauges", Var, "heartbeat" >>, endpoint |-> "process_heartbeat" ],
      [ methods |-> {"POST"},  rule |-> << "gauges", Var, "command" >>, endpoint |-> "send_command" ],
      [ methods |-> {"GET"},   rule |-> << "gauges", "fleet" >>,        endpoint |-> "fleet" ],
      [ methods |-> {"GET"},   rule |-> << "admin", "config-check" >>,  endpoint |-> "config_check" ] }

\* the rule matches the path segment by segment
MatchRule(rule, path) ==
    /\ Len(rule) = Len(path)
    /\ \A i \in 1..Len(rule) : rule[i] = Var \/ rule[i] = path[i]

\* number of placeholders of a rule: a rule without them is preferred
Placeholders(rule) == Cardinality({ i \in 1..Len(rule) : rule[i] = Var })

\* the view function serving the request, or the error Flask answers with
Dispatch(method, path) ==
    LET byPath == { r \in UrlMap : MatchRule(r.rule, path) }
        byMethod == { r \in byPath : method \in r.methods }
    IN  IF byPath = {} THEN "404"
        ELSE IF byMethod = {} THEN "405"
        ELSE (CHOOSE r \in byMethod :
                 \A o \in byMethod :
                     Placeholders(r.rule) <= Placeholders(o.rule)).endpoint

\* request.args.get('limit', 50)
DEFAULT_LIMIT == 50

\* int(...) of the limit argument: absent, an integer text, any other text
LimitArgs == { [ kind |-> "absent" ], [ kind |-> "int", value |-> 1 ],
               [ kind |-> "text" ] }
LimitRaises(arg) == arg.kind = "text"
Limit(arg) == IF arg.kind = "absent" THEN DEFAULT_LIMIT ELSE arg.value

\* the optional equality filters; NoArg is an absent (or empty) argument
NoArg == ""
FilterArgs == [ gaugeId : { NoArg, "gauge-001" }, condition : { NoArg, "flood" } ]

\* query.where(field, '==', value) when the argument is given
Where(docs, ids, field, value) ==
    IF value = NoArg THEN ids
    ELSE { i \in ids : field \in DOMAIN docs[i] /\ docs[i][field] = value }

\* Firestore's order on the timestamps of the model: null first, then the
\* ISO texts, which order as the instants they denote
Rank(v) == IF v = None THEN 0 ELSE CHOOSE t \in 1..MaxStamp : IsoFormat(t) = v

\* the ways Firestore can stream ids ordered by timestamp, descending;
\* documents with equal timestamps come in the order of their random ids
Descending(docs, ids) ==
    { p \in [ 1..Cardinality(ids) -> ids ] :
        /\ \A a, b \in 1..Cardinality(ids) : a # b => p[a] # p[b]
        /\ \A a, b \in 1..Cardinality(ids) :
              a < b => Rank(docs[p[a]]["timestamp"]) >= Rank(docs[p[b]]["timestamp"]) }

\* doc.id of the i-th document of the collection
DocId(i) == ToString(i)

\* the bodies get_readings can return: jsonify({"readings", "count"})
ReadingsBodies(docs, filters, limit) ==
    LET ordered == { i \in 1..Len(docs) : "timestamp" \in DOMAIN docs[i] }
        matched == Where(docs, Where(docs, ordered, "gaugeId", filters.gaugeId),
                         "condition", filters.condition)
    IN  { LET n == Smaller(limit, Len(p))
          IN  [ readings |-> [ k \in 1..n |-> Put(docs[p[k]], "id", DocId(p[k])) ],
                count    |-> n ] :
          p \in Descending(docs, matched) }

\* the response to a request the view function did not answer with JSON
NoJson(path, code) ==
    [ op |-> "GET", path |-> path, code |-> code, body |-> EmptyDict ]

\* jsonify(body) with the default status
Json(path, body) ==
    [ op |-> "GET", path |-> path, code |-> 200, body |-> body ]

\* health()
health ==
    [ status |-> "healthy", service |-> "riverpulse-api",
      database |-> "firestore" ]

\* a GET request through Flask's dispatcher.  Unknown URL: 404 Not Found;
\* known URL, other method: 405; an exception in the view function: 500.
HttpGet(path, limitArg, filters) ==
    LET endpoint == Dispatch("GET", path)
    IN  /\ httpLast' \in
              IF endpoint = "404" THEN { NoJson(path, 404) }
              ELSE IF endpoint = "405" THEN { NoJson(path, 405) }
              ELSE IF endpoint = "health" THEN { Json(path, health) }
              ELSE IF LimitRaises(limitArg) THEN { NoJson(path, 500) }
              ELSE { Json(path, body) :
                       body \in ReadingsBodies(readings, filters, Limit(limitArg)) }
        /\ UNCHANGED << now, readings, pushLast, bridgeVars, evalVars,
                        registryVars >>

\* the GET requests of the model
GetPaths == { << >>, << "readings" >>, << "events" >>, << "pubsub", "push" >> }

\* documents as pubsub_push stores them
StoredObjects ==
    { EmptyDict,
      [ k \in {"timestamp"} |-> None ],
      [ gaugeId |-> "gauge-001", condition |-> "flood",
        timestamp |-> IsoFormat(1) ] }
StoredDocs ==
    { AddMetadata(o, EmptyDict, t) : o \in StoredObjects, t \in 1..MaxStamp }

InitApi ==
    /\ InitCommon!1 /\ InitCommon!2 /\ InitCommon!3 /\ InitCommon!4
    /\ InitCommon!5 /\ InitCommon!6 /\ InitCommon!7
    /\ readings \in UNION { [ 1..n -> StoredDocs ] : n \in 0..MaxDocs }
    /\ InitCommon!9 /\ InitCommon!10 /\ InitCommon!11 /\ InitCommon!12
    /\ InitCommon!13 /\ InitCommon!14 /\ InitCommon!15

NextApi ==
    \E path \in GetPaths, limitArg \in LimitArgs, filters \in FilterArgs :
        HttpGet(path, limitArg, filters)

SpecApi == InitApi /\ [][NextApi]_vars

\* C16: a GET of /events is answered 200 with a JSON body that has the
\* fields 'events' and 'count'.
C16_EventsEndpoint ==
    (httpLast.op = "GET" /\ httpLast.path = << "events" >>)
        => /\ httpLast.code = 200
           /\ { "events", "count" } \subseteq DOMAIN httpLast.body

\* the listing the code does serve: GET /readings answers 200 with
\* 'readings' and 'count', count being the length of the list
C16_ReadingsEndpoint ==
    (httpLast.op = "GET" /\ httpLast.path = << "readings" >>
        /\ httpLast.code = 200)
        => /\ DOMAIN httpLast.body = { "readings", "count" }
           /\ httpLast.body.count = Len(httpLast.body.readings)

\* GET /readings returned two stored documents
C16_ReadingsListed ==
    /\ httpLast.op = "GET"
    /\ httpLast.path = << "readings" >>
    /\ httpLast.code = 200
    /\ httpLast.body.count = 2

-----------------------------------------------------------------------------
(* Gauge registry: src/api/main.py, the "gauges" collection                 *)
(*                                                                          *)
(* `gauges` maps the id of every existing document to its fields.          *)

\* gauge_ref.get().exists
Exists(store, gauge_id) == gauge_id \in DOMAIN store

\* gauge_ref.set(doc): the document is created or replaced as a whole
SetDoc(store, gauge_id, doc) ==
    [ g \in (DOMAIN store) \cup {gauge_id} |->
        IF g = gauge_id THEN doc ELSE store[g] ]

\* gauge_ref.update(fields) on an existing document: the named fields are
\* written, the others kept
UpdateDoc(store, gauge_id, fields) ==
    [ store EXCEPT ![gauge_id] = Merge(@, fields) ]

\* not gauge_id: the key is missing (None) or the id is the empty string
NoGaugeId(data) == Get(data, "gaugeId", None) \in { None, "" }

\* gauge_doc of register_gauge, lines 530-543; the clock is read twice
RegisterDoc(data, t) ==
    [ gaugeId       |-> data["gaugeId"],
      name          |-> Get(data, "name", ""),
      location      |-> Get(data, "location", EmptyDict),
      riverName     |-> Get(data, "riverName", ""),
      firmware      |-> Get(data, "firmware", "unknown"),
      status        |-> "registered",
      lastHeartbeat |-> None,
      batteryLevel  |-> None,
      connectivity  |-> Get(data, "connectivity", "unknown"),
      config        |-> Get(data, "config", EmptyDict),
      registeredAt  |-> IsoFormat(t),
      updatedAt     |-> IsoFormat(t + 1) ]

\* the document process_heartbeat creates for an unknown gauge, lines 563-567
AutoRegisterDoc(gauge_id, t) ==
    [ gaugeId |-> gauge_id, status |-> "online", registeredAt |-> IsoFormat(t) ]

\* the fields process_heartbeat copies from the payload, lines 577-578
HEARTBEAT_FIELDS ==
    { "battery", "firmware", "cpuTemp", "storageUsedPct", "signalStrength",
      "connectivity", "uptime" }

\* a plausible slip: the whole payload is merged, not the allow-listed fields
HeartbeatUpdateCopyAll(data, t) ==
    Merge([ status        |-> "online",
            lastHeartbeat |-> IsoFormat(t),
            updatedAt     |-> IsoFormat(t + 1) ],
          data)

\* update_data of process_heartbeat, lines 570-580; the clock is read twice
HeartbeatUpdate(data, t) ==
    LET copied == (DOMAIN data) \cap HEARTBEAT_FIELDS
    IN  Merge([ status        |-> "online",
                lastHeartbeat |-> IsoFormat(t),
                updatedAt     |-> IsoFormat(t + 1) ],
              [ field \in copied |-> data[field] ])

\* a plausible slip: the existence check is left out
register_gauge_unchecked(data) ==
    IF NoGaugeId(data)
    THEN /\ regLast' = [ op |-> "register", gauge_id |-> "", data |-> data,
                         code |-> 400, t |-> now ]
         /\ UNCHANGED << gauges, now >>
    ELSE /\ gauges' = SetDoc(gauges, data["gaugeId"], RegisterDoc(data, now))
         /\ regLast' = [ op |-> "register", gauge_id |-> data["gaugeId"],
                         data |-> data, code |-> 201, t |-> now ]
         /\ now' = now + 2

\* register_gauge(), run from request to response
register_gauge(data) ==
    IF NoGaugeId(data)
    THEN /\ regLast' = [ op |-> "register", gauge_id |-> "", data |-> data,
                         code |-> 400, t |-> now ]
         /\ UNCHANGED << gauges, now >>
    ELSE IF Exists(gauges, data["gaugeId"])
    THEN /\ regLast' = [ op |-> "register", gauge_id |-> data["gaugeId"],
                         data |-> data, code |-> 409, t |-> now ]
         /\ UNCHANGED << gauges, now >>
    ELSE /\ gauges' = SetDoc(gauges, data["gaugeId"], RegisterDoc(data, now))
         /\ regLast' = [ op |-> "register", gauge_id |-> data["gaugeId"],
                         data |-> data, code |-> 201, t |-> now ]
         /\ now' = now + 2

\* process_heartbeat(gauge_id), run from request to response
process_heartbeat(gauge_id, data) ==
    LET created == IF Exists(gauges, gauge_id) THEN gauges
                   ELSE SetDoc(gauges, gauge_id, AutoRegisterDoc(gauge_id, now))
        t == IF Exists(gauges, gauge_id) THEN now ELSE now + 1
    IN  /\ gauges' = UpdateDoc(created, gauge_id, HeartbeatUpdate(data, t))
        /\ regLast' = [ op |-> "heartbeat", gauge_id |-> gauge_id, data |-> data,
                        code |-> 200, t |-> t ]
        /\ now' = t + 2

\* create_gauge(): POST /gauges
create_gauge(gauge) ==
    IF gauge = EmptyDict \/ "gaugeId" \notin DOMAIN gauge
    THEN /\ regLast' = [ op |-> "create", gauge_id |-> "", data |-> gauge,
                         code |-> 400, t |-> now ]
         /\ UNCHANGED << gauges, now >>
    ELSE LET g1 == Put(gauge, "createdAt", IsoFormat(now))
             g2 == Put(g1, "status", Get(g1, "status", "active"))
         IN  /\ gauges' = SetDoc(gauges, gauge["gaugeId"], g2)
             /\ regLast' = [ op |-> "create", gauge_id |-> gauge["gaugeId"],
                             data |-> gauge, code |-> 201, t |-> now ]
             /\ now' = now + 1

\* update_gauge(gauge_id): PATCH /gauges/<gauge_id>; updating a document
\* that does not exist raises NotFound (500)
update_gauge(gauge_id, updates) ==
    IF updates = EmptyDict
    THEN /\ regLast' = [ op |-> "update", gauge_id |-> gauge_id,
                         data |-> updates, code |-> 400, t |-> now ]
         /\ UNCHANGED << gauges, now >>
    ELSE /\ gauges' = IF Exists(gauges, gauge_id)
                      THEN UpdateDoc(gauges, gauge_id,
                                     Put(updates, "updatedAt", IsoFormat(now)))
                      ELSE gauges
         /\ regLast' = [ op |-> "update", gauge_id |-> gauge_id, data |-> updates,
                         code |-> IF Exists(gauges, gauge_id) THEN 200 ELSE 500,
                         t |-> now ]
         /\ now' = now + 1

\* request bodies and path parameters the model sends
GaugeIds == { "g1", "g2" }

RegisterData ==
    { Merge(Merge(Field("gaugeId", g[1], g[2]), Field("firmware", f, "1.0")),
            Field("name", f, "Salida")) :
        g \in { << FALSE, "" >>, << TRUE, "" >> } \cup { << TRUE, x >> : x \in GaugeIds },
        f \in BOOLEAN }

HeartbeatData ==
    { Merge(Merge(Field("battery", b, "87"), Field("firmware", f, "2.0")),
            Merge(Field("status", x, "offline"), Field("name", x, "spoof"))) :
        b \in BOOLEAN, f \in BOOLEAN, x \in BOOLEAN }

CreateData ==
    { Merge(Field("gaugeId", g[1], g[2]), Field("status", s[1], s[2])) :
        g \in { << FALSE, "" >> } \cup { << TRUE, x >> : x \in GaugeIds },
        s \in { << FALSE, "" >>, << TRUE, "online" >>, << TRUE, "retired" >> } }

UpdateData ==
    { EmptyDict, [ k \in {"status"} |-> "maintenance" ],
      [ k \in {"name"} |-> "renamed" ] }

Register ==
    /\ now <= MaxRegClock
    /\ \E data \in RegisterData : register_gauge(data)
    /\ UNCHANGED << bridgeVars, evalVars, ingestVars, reqs >>

Heartbeat ==
    /\ now <= MaxRegClock
    /\ \E gauge_id \in GaugeIds, data \in HeartbeatData :
          process_heartbeat(gauge_id, data)
    /\ UNCHANGED << bridgeVars, evalVars, ingestVars, reqs >>

CreateGauge ==
    /\ now <= MaxRegClock
    /\ \E gauge \in CreateData : create_gauge(gauge)
    /\ UNCHANGED << bridgeVars, evalVars, ingestVars, reqs >>

UpdateGauge ==
    /\ now <= MaxRegClock
    /\ \E gauge_id \in GaugeIds, updates \in UpdateData :
          update_gauge(gauge_id, updates)
    /\ UNCHANGED << bridgeVars, evalVars, ingestVars, reqs >>

InitRegistry == InitCommon
NextRegistry == Register \/ Heartbeat \/ CreateGauge \/ UpdateGauge
SpecRegistry == InitRegistry /\ [][NextRegistry]_vars

\* every document but the one of gauge_id is as it was
OthersUnchanged(gauge_id) ==
    /\ DOMAIN gauges' \ {gauge_id} = DOMAIN gauges \ {gauge_id}
    /\ \A g \in DOMAIN gauges \ {gauge_id} : gauges'[g] = gauges[g]

\* the allow-list as the claim gives it
ClaimedAllowList ==
    { "battery", "firmware", "cpuTemp", "storageUsedPct", "signalStrength",
      "connectivity", "uptime" }

\* a clock reading taken during the step
ReadDuringStep(text) == \E t \in now .. (now' - 1) : text = IsoFormat(t)

\* C3: a heartbeat for device d leaves a record for d with status online; a
\* missing record is created; in an existing one last_heartbeat and
\* updated_at are refreshed, every allow-listed field of the payload takes
\* the payload's value, and every other field (allow-listed fields the
\* payload lacks, fields the payload names outside the allow-list) is as it
\* was.  No other document changes.
C3_HeartbeatMerges ==
    [][ (now' # now /\ regLast'.op = "heartbeat") =>
          LET d == regLast'.gauge_id
              data == regLast'.data
              copied == (DOMAIN data) \cap ClaimedAllowList
              written == { "status", "lastHeartbeat", "updatedAt" } \cup copied
          IN  /\ d \in DOMAIN gauges'
              /\ OthersUnchanged(d)
              /\ regLast'.code = 200
              /\ LET new == gauges'[d]
                 IN  /\ new["status"] = "online"
                     /\ ReadDuringStep(new["lastHeartbeat"])
                     /\ ReadDuringStep(new["updatedAt"])
                     /\ \A field \in copied : new[field] = data[field]
                     /\ IF d \in DOMAIN gauges
                        THEN /\ DOMAIN new = (DOMAIN gauges[d]) \cup written
                             /\ \A k \in (DOMAIN gauges[d]) \ written :
                                    new[k] = gauges[d][k]
                        ELSE /\ DOMAIN new
                                  = { "gaugeId", "registeredAt" } \cup written
                             /\ new["gaugeId"] = d
      ]_vars

\* C3 witness: a record made by Register (its name is still Salida) went
\* online through a heartbeat that carried firmware, and also a status and a
\* name that were ignored.
C3_Witness ==
    /\ regLast.op = "heartbeat"
    /\ regLast.gauge_id \in DOMAIN gauges
    /\ regLast.data = [ firmware |-> "2.0", status |-> "offline", name |-> "spoof" ]
    /\ LET doc == gauges[regLast.gauge_id]
       IN  /\ doc["status"] = "online"
           /\ "name" \in DOMAIN doc /\ doc["name"] = "Salida"
           /\ doc["firmware"] = "2.0"
           /\ "batteryLevel" \in DOMAIN doc /\ doc["batteryLevel"] = None
           /\ "battery" \notin DOMAIN doc

\* C4: Register for id d creates a record with status registered when d has
\* no record, and answers 409 leaving the store as it was when d has one.
C4_RegisterOnce ==
    [][ (regLast' # regLast /\ regLast'.op = "register"
           /\ ~NoGaugeId(regLast'.data)) =>
          LET d == regLast'.data["gaugeId"]
          IN  IF d \in DOMAIN gauges
              THEN /\ regLast'.code = 409
                   /\ gauges' = gauges
              ELSE /\ regLast'.code = 201
                   /\ d \in DOMAIN gauges'
                   /\ gauges'[d]["status"] = "registered"
                   /\ gauges'[d]["gaugeId"] = d
                   /\ OthersUnchanged(d)
      ]_vars

\* C4 witness: Register was refused for a device whose record a heartbeat
\* had created (it has no name field and is online).
C4_Witness ==
    /\ regLast.op = "register"
    /\ regLast.code = 409
    /\ regLast.gauge_id \in DOMAIN gauges
    /\ LET doc == gauges[regLast.gauge_id]
       IN  /\ doc["status"] = "online"
           /\ "lastHeartbeat" \in DOMAIN doc
           /\ "name" \notin DOMAIN doc
           /\ "createdAt" \notin DOMAIN doc

\* Register was refused for a device an earlier Register had recorded
C4_RefusedAfterRegisterSeen ==
    /\ regLast.op = "register"
    /\ regLast.code = 409
    /\ regLast.gauge_id \in DOMAIN gauges
    /\ gauges[regLast.gauge_id]["status"] = "registered"

\* C6: every gauge record has status in {registered, online, offline},
\* whichever of register, heartbeat, gauge creation and partial update ran.
C6_StatusInStateSet ==
    \A g \in DOMAIN gauges :
        /\ "status" \in DOMAIN gauges[g]
        /\ gauges[g]["status"] \in { "registered", "online", "offline" }

-----------------------------------------------------------------------------
(* The registry's core handlers, interleaved.  Flask serves requests on     *)
(* concurrent workers and neither handler takes a lock or a transaction, so *)
(* the steps of two requests interleave at their Firestore calls:           *)
(*   register_gauge     get().exists | set(gauge_doc)                       *)
(*   process_heartbeat  get() | set(auto-registration) | update(update_data)*)
(* reqs[i] is the i-th request received: its inputs, where it stands (pc)   *)
(* and what its read returned (exists).                                     *)

ConcGaugeIds == { "g1" }
ConcRegisterData ==
    { d \in RegisterData : NoGaugeId(d) \/ d["gaugeId"] \in ConcGaugeIds }

Finish(i, code) == [ reqs EXCEPT ![i].pc = "done", ![i].code = code ]

Completed(req, code) ==
    [ op |-> req.op, gauge_id |-> req.gauge_id, data |-> req.data,
      code |-> code, t |-> now ]

\* register_gauge up to and including gauge_ref.get().exists (lines 518-528)
RegisterRead(data) ==
    /\ Len(reqs) < MaxConcOps
    /\ LET req == [ op |-> "register",
                    gauge_id |-> IF NoGaugeId(data) THEN "" ELSE data["gaugeId"],
                    data |-> data, exists |-> FALSE, pc |-> "done", code |-> 400 ]
       IN  IF NoGaugeId(data)
           THEN /\ reqs' = Append(reqs, req)
                /\ regLast' = Completed(req, 400)
           ELSE IF Exists(gauges, data["gaugeId"])
           THEN /\ reqs' = Append(reqs, [ req EXCEPT !.exists = TRUE, !.code = 409 ])
                /\ regLast' = Completed(req, 409)
           ELSE /\ reqs' = Append(reqs, [ req EXCEPT !.pc = "set", !.code = 0 ])
                /\ UNCHANGED regLast
    /\ UNCHANGED << now, gauges, bridgeVars, evalVars, ingestVars >>

\* register_gauge from gauge_doc to the response (lines 530-546)
RegisterWrite(i) ==
    /\ reqs[i].op = "register" /\ reqs[i].pc = "set"
    /\ gauges' = SetDoc(gauges, reqs[i].gauge_id, RegisterDoc(reqs[i].data, now))
    /\ now' = now + 2
    /\ reqs' = Finish(i, 201)
    /\ regLast' = Completed(reqs[i], 201)
    /\ UNCHANGED << bridgeVars, evalVars, ingestVars >>

\* process_heartbeat up to and including doc = gauge_ref.get() (lines 556-559)
HeartbeatRead(gauge_id, data) ==
    /\ Len(reqs) < MaxConcOps
    /\ reqs' = Append(reqs,
                 [ op |-> "heartbeat", gauge_id |-> gauge_id, data |-> data,
                   exists |-> Exists(gauges, gauge_id),
                   pc |-> IF Exists(gauges, gauge_id) THEN "update" ELSE "create",
                   code |-> 0 ])
    /\ UNCHANGED << now, gauges, regLast, bridgeVars, evalVars, ingestVars >>

\* if not doc.exists: gauge_ref.set({...}) (lines 561-567)
HeartbeatCreate(i) ==
    /\ reqs[i].op = "heartbeat" /\ reqs[i].pc = "create"
    /\ gauges' = SetDoc(gauges, reqs[i].gauge_id,
                        AutoRegisterDoc(reqs[i].gauge_id, now))
    /\ now' = now + 1
    /\ reqs' = [ reqs EXCEPT ![i].pc = "update" ]
    /\ UNCHANGED << regLast, bridgeVars, evalVars, ingestVars >>

\* update_data, gauge_ref.update(update_data) and the response (lines 569-584)
HeartbeatWrite(i) ==
    /\ reqs[i].op = "heartbeat" /\ reqs[i].pc = "update"
    /\ gauges' = UpdateDoc(gauges, reqs[i].gauge_id,
                           HeartbeatUpdate(reqs[i].data, now))
    /\ now' = now + 2
    /\ reqs' = Finish(i, 200)
    /\ regLast' = Completed(reqs[i], 200)
    /\ UNCHANGED << bridgeVars, evalVars, ingestVars >>

InitRegistryConc == InitCommon
NextRegistryConc ==
    \/ \E data \in ConcRegisterData : RegisterRead(data)
    \/ \E i \in 1..Len(reqs) : RegisterWrite(i)
    \/ \E gauge_id \in ConcGaugeIds, data \in HeartbeatData :
          HeartbeatRead(gauge_id, data)
    \/ \E i \in 1..Len(reqs) : HeartbeatCreate(i)
    \/ \E i \in 1..Len(reqs) : HeartbeatWrite(i)
SpecRegistryConc == InitRegistryConc /\ [][NextRegistryConc]_vars

\* C5: across any interleaving of Register and Heartbeat a record's status
\* only moves forward along registered -> online: a record that is online
\* stays online, and no step sets a status to offline.
C5_StatusOnlyForward ==
    [][ \A g \in DOMAIN gauges :
          /\ g \in DOMAIN gauges'
          /\ gauges'[g]["status"] # "offline"
          /\ gauges[g]["status"] = "online" => gauges'[g]["status"] = "online"
      ]_vars

\* the part of C5 the code keeps under every interleaving: no step of
\* Register or Heartbeat writes a status other than registered or online
C5_NeverOffline ==
    \A g \in DOMAIN gauges : gauges[g]["status"] \in { "registered", "online" }


\* the allow-listed fields a heartbeat payload carries
Carried(data) == [ f \in (DOMAIN data) \cap HEARTBEAT_FIELDS |-> data[f] ]

\* C17: when two heartbeats for one device have both completed and nothing
\* else was requested, the record is online and its allow-listed fields are
\* those of the two heartbeats applied one after the other, in one of the
\* two orders; so a field only one of them carried is there.
C17_HeartbeatsSerializable ==
    ( /\ Len(reqs) = 2
      /\ \A i \in 1..2 : reqs[i].op = "heartbeat" /\ reqs[i].pc = "done"
      /\ reqs[1].gauge_id = reqs[2].gauge_id )
    => LET rec == gauges[reqs[1].gauge_id]
           a == Carried(reqs[1].data)
           b == Carried(reqs[2].data)
       IN  /\ rec["status"] = "online"
           /\ Carried(rec) \in { Merge(a, b), Merge(b, a) }

\* two heartbeats that did not overlap: the second one finds the record and
\* both contributions are kept
C17_SerialHeartbeatsSeen ==
    /\ Len(reqs) = 2
    /\ \A i \in 1..2 : reqs[i].op = "heartbeat" /\ reqs[i].pc = "done"
    /\ ~reqs[1].exists /\ reqs[2].exists
    /\ DOMAIN Carried(reqs[1].data) = { "battery" }
    /\ DOMAIN Carried(reqs[2].data) = { "firmware" }
    /\ DOMAIN Carried(gauges[reqs[1].gauge_id]) = { "battery", "firmware" }

\* C18: the write of a Register never lands on a record that exists at that
\* moment, whatever was interleaved between its existence check and its
\* write; and at most one Register per device id has answered 201.
C18_RegisterNeverReplaces ==
    [][ /\ \A i \in 1..Len(reqs) :
              ( /\ reqs[i].op = "register"
                /\ reqs[i].pc = "set"
                /\ reqs'[i].pc = "done" )
              => reqs[i].gauge_id \notin DOMAIN gauges
        /\ \A i, j \in 1..Len(reqs') :
              ( /\ reqs'[i].op = "register" /\ reqs'[i].code = 201
                /\ reqs'[j].op = "register" /\ reqs'[j].code = 201
                /\ reqs'[i].gauge_id = reqs'[j].gauge_id )
              => i = j
      ]_vars

\* a Register that did not overlap any other request wrote a fresh record
C18_FreshRegisterSeen ==
    /\ Len(reqs) = 1
    /\ reqs[1].op = "register" /\ reqs[1].code = 201
    /\ reqs[1].gauge_id \in DOMAIN gauges
    /\ gauges[reqs[1].gauge_id]["status"] = "registered"

=============================================================================
